---- MODULE Spec2Model ----
(***************************************************************************)
(* Model of main.py, the Streamlit script that pairs an Items spreadsheet  *)
(* with a wide Region Patches spreadsheet and exports one Excel sheet per  *)
(* region.  One run of the script is one behaviour: the user uploads the   *)
(* two files, then the script runs top to bottom, one action per step.     *)
(*                                                                         *)
(* Texts that are compared, sorted or truncated (region names, sheet       *)
(* names) are sequences of character codes.  An empty spreadsheet cell is  *)
(* the value NaN.  A DataFrame row is a function from column names to      *)
(* values.                                                                 *)
(***************************************************************************)
EXTENDS Integers, Sequences, FiniteSets, TLC

VARIABLES pc, file1, file2, df_items, df_regions_wide, df_regions_long,
          df_merged, output_df, book, ui

vars == <<pc, file1, file2, df_items, df_regions_wide, df_regions_long,
          df_merged, output_df, book, ui>>

----------------------------------------------------------------------------
(* Bounds of the explored inputs *)

MaxItems == 2

MaxCols == 2

MaxRows == 2

(* Program constant: the sheet-name length ceiling *)
SheetNameLimit == 31

----------------------------------------------------------------------------
(* Input alphabet.  Region texts are one short name and two 32-character *)
(* names that agree on their first 31 characters; all are valid Excel     *)
(* sheet titles and differ in more than letter case.  Column names of a   *)
(* sheet read by pd.read_excel are pairwise different.                    *)

NaN == "NaN"

Pad(n) == [i \in 1..n |-> 80]

RegE == <<69>>

RegLongA == Pad(SheetNameLimit) \o <<97>>

RegLongB == Pad(SheetNameLimit) \o <<98>>

RegionNames == {RegE, RegLongA, RegLongB}

(* the patch code a non-blank cell of row r holds *)
Codes == <<"AB", "AC", "AD", "AE", "AF">>

(* the Item # of the k-th row of the Items sheet *)
ItemNums == <<1541187, 5452877, 5263949, 5452878, 9876543>>

required_item_cols == {"Item #", "Model", "VBU", "Region"}

(* the column sets of the uploaded Items sheet: the required columns     *)
(* with one more, and the required columns with one missing               *)
ItemColumnSets ==
    { required_item_cols \cup {"Notes"},
      required_item_cols \ {"VBU"} }

FullItem(n, r) ==
    [c \in required_item_cols \cup {"Notes"} |->
        CASE c = "Item #" -> n
          [] c = "Model"  -> "1000008671"
          [] c = "VBU"    -> "1257"
          [] c = "Region" -> r
          [] OTHER        -> "n"]

Restrict(row, cols) == [c \in cols |-> row[c]]

SeqsUpTo(S, n) == UNION { [1..k -> S] : k \in 0..n }

InjectiveSeqs(S, n) ==
    { s \in SeqsUpTo(S, n) : \A i, j \in DOMAIN s : i # j => s[i] # s[j] }

NoItemsFile == [status |-> "none", columns |-> {}, rows |-> <<>>]

CorruptFile == [status |-> "corrupt", columns |-> {}, rows |-> <<>>]

NoPatchFile == [status |-> "none", columns |-> <<>>, rows |-> <<>>]

(* Items sheets: up to MaxItems rows, each with its own Item # and any    *)
(* region, under each of the column sets                                   *)
ItemsFiles ==
    UNION { { [status |-> "ok", columns |-> cols,
               rows |-> [k \in DOMAIN s |->
                            Restrict(FullItem(ItemNums[k], s[k]), cols)]] :
                s \in SeqsUpTo(RegionNames, MaxItems) } :
            cols \in ItemColumnSets }

(* wide tables: up to MaxRows rows, every cell blank or the row's code *)
WideTables(colnames) ==
    IF Len(colnames) = 0
    THEN { <<>> }
    ELSE UNION { { [r \in 1..nr |-> [c \in 1..Len(colnames) |->
                        IF <<r, c>> \in filled THEN Codes[r] ELSE NaN]] :
                    filled \in SUBSET ((1..nr) \X (1..Len(colnames))) } :
                 nr \in 0..MaxRows }

PatchFiles ==
    UNION { { [status |-> "ok", columns |-> colnames, rows |-> rs] :
                rs \in WideTables(colnames) } :
            colnames \in InjectiveSeqs(RegionNames, MaxCols) }

----------------------------------------------------------------------------
(* DataFrame helpers *)

EmptyFrame == [columns |-> <<>>, rows |-> <<>>]

IsEmptyNoRowCheck(df) == Len(df.columns) = 0

(* DataFrame.empty: any axis of length zero *)
IsEmpty(df) == Len(df.columns) = 0 \/ Len(df.rows) = 0

DropNaKeepAll(rows, col) == rows

(* DataFrame.dropna(subset=[col]) *)
DropNa(rows, col) == SelectSeq(rows, LAMBDA r : r[col] # NaN)

(* pd.melt(df, var_name='Region', value_name='Region patch code'):        *)
(* column by column, and within a column row by row                        *)
Melt(df) ==
    LET nc == Len(df.columns)
        nr == Len(df.rows)
    IN  [k \in 1..(nc * nr) |->
            LET c == ((k - 1) \div nr) + 1
                r == ((k - 1) % nr) + 1
            IN  ("Region" :> df.columns[c]) @@
                ("Region patch code" :> df.rows[r][c])]

KeyEqAny(a, b) == TRUE

(* the join key comparison of pd.merge(on='Region'): exact equality *)
KeyEq(a, b) == a = b

MergeRowFirstMatch(l, right) ==
    LET m == SelectSeq(right, LAMBDA r : KeyEq(l["Region"], r["Region"]))
    IN  IF Len(m) = 0
        THEN << l @@ ("Region patch code" :> NaN) >>
        ELSE << l @@ ("Region patch code" :> m[1]["Region patch code"]) >>

(* the rows one left row contributes to a left join *)
MergeRow(l, right) ==
    LET m == SelectSeq(right, LAMBDA r : KeyEq(l["Region"], r["Region"]))
    IN  IF Len(m) = 0
        THEN << l @@ ("Region patch code" :> NaN) >>
        ELSE [k \in 1..Len(m) |->
                l @@ ("Region patch code" :> m[k]["Region patch code"])]

RECURSIVE MergeLeft(_, _)
(* pd.merge(left, right, on='Region', how='left') *)
MergeLeft(left, right) ==
    IF Len(left) = 0
    THEN <<>>
    ELSE MergeRow(Head(left), right) \o MergeLeft(Tail(left), right)

OutputColumns == {"VBU", "Item #", "Model", "Region patch code", "Region"}

TabColumns == {"VBU", "Item #", "Model", "Region patch code"}

(* df[[cols]] *)
Select(rows, cols) == [k \in DOMAIN rows |-> Restrict(rows[k], cols)]

----------------------------------------------------------------------------
(* Text helpers *)

Min(a, b) == IF a <= b THEN a ELSE b

(* s[:n] *)
Prefix(s, n) == SubSeq(s, 1, Min(Len(s), n))

RECURSIVE LexLess(_, _)
(* str < str: code point by code point, a proper prefix sorts first *)
LexLess(a, b) ==
    IF Len(b) = 0 THEN FALSE
    ELSE IF Len(a) = 0 THEN TRUE
    ELSE IF Head(a) # Head(b) THEN Head(a) < Head(b)
    ELSE LexLess(Tail(a), Tail(b))

----------------------------------------------------------------------------
(* groupby and the Excel writer *)

RECURSIVE SortKeys(_)
SortKeys(S) ==
    IF S = {} THEN <<>>
    ELSE LET lo == CHOOSE x \in S : \A y \in S \ {x} : LexLess(x, y)
         IN  <<lo>> \o SortKeys(S \ {lo})

RECURSIVE FirstSeen(_)
FirstSeen(rows) ==
    IF Len(rows) = 0 THEN <<>>
    ELSE <<Head(rows)["Region"]>> \o
         FirstSeen(SelectSeq(Tail(rows),
                             LAMBDA r : r["Region"] # Head(rows)["Region"]))

GroupKeysUnsorted(rows) == FirstSeen(rows)

(* the group keys in the order DataFrame.groupby('Region') iterates them *)
GroupKeys(rows) == SortKeys({ rows[k]["Region"] : k \in DOMAIN rows })

GroupRows(rows, key) == SelectSeq(rows, LAMBDA r : r["Region"] = key)

sheet_name(region_name) == Prefix(region_name, SheetNameLimit)

SheetIndex(b, name) ==
    IF \E i \in DOMAIN b : b[i].name = name
    THEN CHOOSE i \in DOMAIN b : b[i].name = name
    ELSE 0

(* DataFrame.to_excel(writer, sheet_name=..., index=False) in write mode:  *)
(* a new name creates a sheet at the end; an existing name reuses that     *)
(* sheet and the cells are written over it from the first row, so rows     *)
(* beyond the new frame's length keep their old content                    *)
ToExcel(b, name, rows) ==
    LET i == SheetIndex(b, name)
    IN  IF i = 0
        THEN Append(b, [name |-> name, rows |-> rows])
        ELSE [b EXCEPT ![i].rows =
                rows \o SubSeq(@, Len(rows) + 1, Len(@))]

RECURSIVE ExportLoop(_, _, _)
(* the for loop over output_df.groupby('Region') *)
ExportLoop(b, keys, rows) ==
    IF Len(keys) = 0
    THEN b
    ELSE ExportLoop(
            ToExcel(b, sheet_name(Head(keys)),
                    Select(GroupRows(rows, Head(keys)), TabColumns)),
            Tail(keys), rows)

(* closing the writer saves the workbook; openpyxl refuses to save a      *)
(* workbook without a sheet                                                *)
SaveRaises(b) == Len(b) = 0

----------------------------------------------------------------------------
(* Messages shown to the user *)

InfoMsg == "info: Please upload both spreadsheets to begin processing."

ColumnsErrorMsg == "error: The Items spreadsheet must contain the required columns"

EmptyErrorMsg == "error: The Region Patches spreadsheet cannot be empty."

SuccessMsg == "success: Data has been successfully paired and structured!"

ExceptionErrorMsg == "error: An error occurred"

ExceptionWarningMsg == "warning: Please ensure your files are in the correct format"

DownloadMsg == "download: region_paired_output.xlsx"

(* the except Exception handler *)
Except(msgs) == msgs \o <<ExceptionErrorMsg, ExceptionWarningMsg>>

----------------------------------------------------------------------------
(* The script *)

Init ==
    /\ pc = "idle"
    /\ file1 = NoItemsFile
    /\ file2 = NoPatchFile
    /\ df_items = [columns |-> {}, rows |-> <<>>]
    /\ df_regions_wide = EmptyFrame
    /\ df_regions_long = <<>>
    /\ df_merged = <<>>
    /\ output_df = <<>>
    /\ book = <<>>
    /\ ui = <<>>

(* st.file_uploader: the user provides none, one or both files *)
Upload ==
    /\ pc = "idle"
    /\ \E f1 \in ItemsFiles \cup {NoItemsFile, CorruptFile},
          f2 \in PatchFiles \cup {NoPatchFile} :
          /\ file1' = f1
          /\ file2' = f2
    /\ pc' = "main"
    /\ UNCHANGED <<df_items, df_regions_wide, df_regions_long, df_merged,
                   output_df, book, ui>>

(* if file1 and file2: ... else: st.info(...) *)
Main ==
    /\ pc = "main"
    /\ IF file1.status # "none" /\ file2.status # "none"
       THEN /\ pc' = "load"
            /\ ui' = ui
       ELSE /\ pc' = "end"
            /\ ui' = Append(ui, InfoMsg)
    /\ UNCHANGED <<file1, file2, df_items, df_regions_wide, df_regions_long,
                   df_merged, output_df, book>>

(* pd.read_excel of both files; a malformed file raises *)
Load ==
    /\ pc = "load"
    /\ IF file1.status = "corrupt" \/ file2.status = "corrupt"
       THEN /\ pc' = "failed"
            /\ ui' = Except(ui)
            /\ UNCHANGED <<df_items, df_regions_wide>>
       ELSE /\ pc' = "validate_items"
            /\ df_items' = [columns |-> file1.columns, rows |-> file1.rows]
            /\ df_regions_wide' = [columns |-> file2.columns, rows |-> file2.rows]
            /\ ui' = ui
    /\ UNCHANGED <<file1, file2, df_regions_long, df_merged, output_df, book>>

ValidateItems ==
    /\ pc = "validate_items"
    /\ IF ~(required_item_cols \subseteq df_items.columns)
       THEN /\ ui' = Append(ui, ColumnsErrorMsg)
            /\ pc' = "stopped"
       ELSE /\ ui' = ui
            /\ pc' = "validate_patches"
    /\ UNCHANGED <<file1, file2, df_items, df_regions_wide, df_regions_long,
                   df_merged, output_df, book>>

ValidatePatches ==
    /\ pc = "validate_patches"
    /\ IF IsEmpty(df_regions_wide)
       THEN /\ ui' = Append(ui, EmptyErrorMsg)
            /\ pc' = "stopped"
       ELSE /\ ui' = ui
            /\ pc' = "melt"
    /\ UNCHANGED <<file1, file2, df_items, df_regions_wide, df_regions_long,
                   df_merged, output_df, book>>

(* wide to long, then drop the blank cells *)
Transform ==
    /\ pc = "melt"
    /\ df_regions_long' = DropNa(Melt(df_regions_wide), "Region patch code")
    /\ pc' = "merge"
    /\ UNCHANGED <<file1, file2, df_items, df_regions_wide, df_merged,
                   output_df, book, ui>>

(* left join on Region, then drop the items that matched nothing *)
Pair ==
    /\ pc = "merge"
    /\ df_merged' = DropNa(MergeLeft(df_items.rows, df_regions_long),
                           "Region patch code")
    /\ pc' = "structure"
    /\ UNCHANGED <<file1, file2, df_items, df_regions_wide, df_regions_long,
                   output_df, book, ui>>

Structure ==
    /\ pc = "structure"
    /\ output_df' = Select(df_merged, OutputColumns)
    /\ ui' = Append(ui, SuccessMsg)
    /\ pc' = "export"
    /\ UNCHANGED <<file1, file2, df_items, df_regions_wide, df_regions_long,
                   df_merged, book>>

(* the with pd.ExcelWriter(...) block: one sheet per group, then save *)
Export ==
    /\ pc = "export"
    /\ book' = ExportLoop(<<>>, GroupKeys(output_df), output_df)
    /\ IF SaveRaises(book')
       THEN /\ ui' = Except(ui)
            /\ pc' = "failed"
       ELSE /\ ui' = ui
            /\ pc' = "download"
    /\ UNCHANGED <<file1, file2, df_items, df_regions_wide, df_regions_long,
                   df_merged, output_df>>

Download ==
    /\ pc = "download"
    /\ ui' = Append(ui, DownloadMsg)
    /\ pc' = "end"
    /\ UNCHANGED <<file1, file2, df_items, df_regions_wide, df_regions_long,
                   df_merged, output_df, book>>

Next ==
    \/ Upload
    \/ Main
    \/ Load
    \/ ValidateItems
    \/ ValidatePatches
    \/ Transform
    \/ Pair
    \/ Structure
    \/ Export
    \/ Download

Spec == Init /\ [][Next]_vars

----------------------------------------------------------------------------
(* Vocabulary of the properties *)

Shown(msg) == \E k \in DOMAIN ui : ui[k] = msg

Count(seq, x) == Cardinality({ k \in DOMAIN seq : seq[k] = x })

(* both validation checks were passed, so the run went on to transform *)
PastValidation == Len(df_regions_wide.rows) > 0 /\ pc \notin {"load", "validate_items", "validate_patches", "stopped"}

AfterTransform == PastValidation /\ pc # "melt"

AfterPair == AfterTransform /\ pc # "merge"

AfterExport == AfterPair /\ pc \notin {"structure", "export"}

Finished == AfterExport /\ pc # "download"

ItemIdx == DOMAIN df_items.rows

EntryIdx == DOMAIN df_regions_long

RegionMatches(i, j) ==
    df_items.rows[i]["Region"] = df_regions_long[j]["Region"]

MatchingPairs == { q \in ItemIdx \X EntryIdx : RegionMatches(q[1], q[2]) }

(* the PairedRecord of Item i and PatchEntry j *)
Built(i, j) ==
    df_items.rows[i] @@
    ("Region patch code" :> df_regions_long[j]["Region patch code"])

ItemMatched(i) == \E j \in EntryIdx : RegionMatches(i, j)

Tab(row) == [c \in {"VBU", "Item #", "Model", "Region patch code"} |-> row[c]]

First31(s) == IF Len(s) <= 31 THEN s ELSE SubSeq(s, 1, 31)

PairedRegions == { output_df[k]["Region"] : k \in DOMAIN output_df }

----------------------------------------------------------------------------
(* C1: after the region-matched pairing, the paired result holds exactly  *)
(* one record per (Item, PatchEntry) pair whose regions are equal, and    *)
(* nothing else: as many records as matching pairs, and every record      *)
(* value occurs as often as matching pairs build it.                      *)
RegionJoinCorrect ==
    AfterPair =>
        LET matching == MatchingPairs
        IN  /\ Len(df_merged) = Cardinality(matching)
            /\ \A q \in matching :
                  LET rec == Built(q[1], q[2])
                  IN  Count(df_merged, rec) =
                      Cardinality({ p \in matching : Built(p[1], p[2]) = rec })

RegionJoinWitness ==
    /\ AfterPair
    /\ \E i \in ItemIdx : Cardinality({ j \in EntryIdx : RegionMatches(i, j) }) >= 2
    /\ \E i \in ItemIdx : ~ItemMatched(i)
    /\ \E q \in ItemIdx \X EntryIdx : q \notin MatchingPairs /\ ItemMatched(q[1])

----------------------------------------------------------------------------
(* C2: the expanded relation is the multiset of (column name, cell value) *)
(* over the non-empty cells of the wide table: one entry per non-empty    *)
(* cell, none for an empty cell, and none at all for an all-empty table.  *)
WideCells ==
    { q \in (DOMAIN df_regions_wide.columns) \X (DOMAIN df_regions_wide.rows) :
        df_regions_wide.rows[q[2]][q[1]] # "NaN" }

CellEntry(q) ==
    ("Region" :> df_regions_wide.columns[q[1]]) @@
    ("Region patch code" :> df_regions_wide.rows[q[2]][q[1]])

ExpandExact ==
    AfterTransform =>
        LET cells == WideCells
        IN  /\ Len(df_regions_long) = Cardinality(cells)
            /\ \A q \in cells :
                  LET entry == CellEntry(q)
                  IN  Count(df_regions_long, entry) =
                      Cardinality({ p \in cells : CellEntry(p) = entry })
            /\ \A k \in DOMAIN df_regions_long :
                  df_regions_long[k]["Region patch code"] # "NaN"

ExpandWitness ==
    /\ AfterTransform
    /\ Len(df_regions_wide.columns) = 2
    /\ Cardinality(WideCells) >= 2
    /\ Cardinality(WideCells) <
         Len(df_regions_wide.columns) * Len(df_regions_wide.rows)

ExpandAllEmptyWitness ==
    /\ AfterTransform
    /\ WideCells = {}
    /\ df_regions_long = <<>>

----------------------------------------------------------------------------
(* C3: the expand, pair and partition steps are reached only after both   *)
(* validation checks passed; when a check fails the run halts with that   *)
(* check's error shown and no expansion, pairing, workbook or download.   *)
ChecksPass ==
    /\ {"Item #", "Model", "VBU", "Region"} \subseteq df_items.columns
    /\ Len(df_regions_wide.columns) > 0
    /\ Len(df_regions_wide.rows) > 0

NothingProduced ==
    /\ df_regions_long = <<>>
    /\ df_merged = <<>>
    /\ output_df = <<>>
    /\ book = <<>>
    /\ ~Shown(SuccessMsg)
    /\ ~Shown(DownloadMsg)

ValidationFirst ==
    /\ (pc \in {"melt", "merge", "structure", "export", "download"}
          \/ df_regions_long # <<>> \/ df_merged # <<>> \/ book # <<>>
          \/ Shown(SuccessMsg) \/ Shown(DownloadMsg))
       => ChecksPass
    /\ (pc \notin {"idle", "main", "load", "validate_items", "validate_patches"}
          /\ file1.status = "ok" /\ file2.status = "ok" /\ ~ChecksPass)
       => /\ pc = "stopped"
          /\ NothingProduced
          /\ ui = << IF {"Item #", "Model", "VBU", "Region"} \subseteq df_items.columns
                     THEN EmptyErrorMsg ELSE ColumnsErrorMsg >>

ValidationHaltWitness ==
    /\ pc = "stopped"
    /\ Len(df_items.rows) > 0
    /\ Len(df_regions_wide.columns) > 0
    /\ Len(df_regions_wide.rows) = 0

ValidationPassWitness ==
    /\ pc = "download"
    /\ book # <<>>

----------------------------------------------------------------------------
(* C4: when pairing leaves zero records the run ends with a soft warning  *)
(* only: no generic fault is reported and no success report is given.     *)
EmptyResultSoftWarning ==
    (Finished /\ df_merged = <<>>) =>
        /\ ~Shown(SuccessMsg)
        /\ ~Shown(ExceptionErrorMsg)
        /\ pc # "failed"

----------------------------------------------------------------------------
(* C5: an Item whose region has no PatchEntry is absent from the output   *)
(* and raises no error; when at least one Item matches, the run succeeds  *)
(* and the workbook holds the records of the matching Items.              *)
InSomeSheet(row) ==
    \E s \in DOMAIN book : \E k \in DOMAIN book[s].rows : book[s].rows[k] = row

----------------------------------------------------------------------------
(* C6: the paired records follow the Items' order first and, within one   *)
(* Item, the row order of the region's column; each sheet keeps the       *)
(* paired order of the records it holds.                                  *)
ColumnOf(region) ==
    { c \in DOMAIN df_regions_wide.columns : df_regions_wide.columns[c] = region }

RowsFor(i) ==
    SelectSeq([r \in DOMAIN df_regions_wide.rows |-> r],
              LAMBDA r : \E c \in ColumnOf(df_items.rows[i]["Region"]) :
                            df_regions_wide.rows[r][c] # "NaN")

RecordFor(i, r) ==
    df_items.rows[i] @@
    ("Region patch code" :>
        df_regions_wide.rows[r][CHOOSE c \in ColumnOf(df_items.rows[i]["Region"]) : TRUE])

RECURSIVE OrderedPairing(_)
OrderedPairing(i) ==
    IF i > Len(df_items.rows) THEN <<>>
    ELSE [k \in DOMAIN RowsFor(i) |-> RecordFor(i, RowsFor(i)[k])]
         \o OrderedPairing(i + 1)

SheetKeepsPairedOrder(s) ==
    \A a, b \in DOMAIN book[s].rows : a < b =>
        \E k, l \in DOMAIN df_merged :
            /\ k < l
            /\ First31(df_merged[k]["Region"]) = book[s].name
            /\ First31(df_merged[l]["Region"]) = book[s].name
            /\ Tab(df_merged[k]) = book[s].rows[a]
            /\ Tab(df_merged[l]) = book[s].rows[b]

PairedOrderKept ==
    AfterExport =>
        /\ df_merged = OrderedPairing(1)
        /\ \A s \in DOMAIN book : SheetKeepsPairedOrder(s)

----------------------------------------------------------------------------
(* C7 as stated: the sheets appear in the order in which their regions    *)
(* first occur in the paired record sequence.                             *)
FirstRow(name) ==
    CHOOSE k \in DOMAIN output_df :
        /\ First31(output_df[k]["Region"]) = name
        /\ \A l \in DOMAIN output_df :
              First31(output_df[l]["Region"]) = name => k <= l

SheetsInFirstSeenOrder ==
    AfterExport =>
        \A s, t \in DOMAIN book : s < t => FirstRow(book[s].name) < FirstRow(book[t].name)

(* C7 as amended: the sheets appear in ascending code-point order of      *)
(* their names, whatever the order of the regions in the paired records.  *)
SheetsInSortedOrder ==
    AfterExport =>
        \A s, t \in DOMAIN book : s < t => LexLess(book[s].name, book[t].name)

SheetsInSortedOrderWitness ==
    /\ AfterExport
    /\ Len(book) >= 2
    /\ FirstRow(book[2].name) < FirstRow(book[1].name)

----------------------------------------------------------------------------
(* C8: each group's sheet is named by the first 31 characters of its      *)
(* region, and the sheet names are unique (distinct groups get distinct   *)
(* sheets), non-empty and at most 31 characters long.                     *)
SheetNamesUnique ==
    AfterExport =>
        /\ \A g \in PairedRegions : \E s \in DOMAIN book : book[s].name = First31(g)
        /\ \A s \in DOMAIN book : Len(book[s].name) \in 1..31
        /\ \A s, t \in DOMAIN book : s # t => book[s].name # book[t].name
        /\ \A g, h \in PairedRegions : g # h => First31(g) # First31(h)
        /\ Len(book) = Cardinality(PairedRegions)

----------------------------------------------------------------------------
----------------------------------------------------------------------------
(* C10: after a successful run every paired record is in exactly one      *)
(* sheet, the one named after its region, and every row of every sheet    *)
(* is the projection of a paired record of that sheet's region.           *)
RECURSIVE TotalRows(_)
TotalRows(b) == IF Len(b) = 0 THEN 0 ELSE Len(Head(b).rows) + TotalRows(Tail(b))

PartitionLossless ==
    (pc = "end" /\ Shown(DownloadMsg)) =>
        /\ TotalRows(book) = Len(output_df)
        /\ \A k \in DOMAIN output_df :
              \E s \in DOMAIN book :
                 /\ book[s].name = First31(output_df[k]["Region"])
                 /\ \A t \in DOMAIN book : book[t].name = book[s].name => t = s
                 /\ Count(book[s].rows, Tab(output_df[k])) =
                    Cardinality({ l \in DOMAIN output_df :
                        /\ output_df[l]["Region"] = output_df[k]["Region"]
                        /\ Tab(output_df[l]) = Tab(output_df[k]) })
        /\ \A s \in DOMAIN book : \A a \in DOMAIN book[s].rows :
              \E k \in DOMAIN output_df :
                 /\ Tab(output_df[k]) = book[s].rows[a]
                 /\ First31(output_df[k]["Region"]) = book[s].name

====
